---- MODULE Spec2Model ----
(***************************************************************************)
(* Model of the WorldMap component (components/WorldMap.tsx):              *)
(*   - the naming table dwaparaLookup and the transform enrichDataset,     *)
(*   - the load lifecycle of the component: its three state cells, the     *)
(*     effect that starts loadDataset, the cleanup that clears             *)
(*     isSubscribed, and the two suspension points of loadDataset,         *)
(*   - the view selection made by the render body.                         *)
(*                                                                         *)
(* JavaScript values are tagged records so that null, undefined, strings   *)
(* and objects can be compared with each other.                            *)
(***************************************************************************)
EXTENDS Integers, Sequences, FiniteSets, TLC

VARIABLES
    inst,       \* number of component instances constructed so far; the current one
    dataset,    \* useState cell `dataset` of the current instance
    error,      \* useState cell `error` of the current instance
    isMounted,  \* useState cell `isMounted` of the current instance
    acts,       \* one record per run of the loading effect (an activation)
    requests,   \* the calls of fetch made so far, each settled or in flight
    input,      \* argument handed to enrichDataset (pure-function specification)
    output,     \* completion of enrichDataset(input), or Pending
    again,      \* completion of enrichDataset applied to its own result, or Pending
    layers      \* the map layers set up by handleEachFeature, one per feature

vars == <<inst, dataset, error, isMounted, acts, requests, input, output, again, layers>>

(***************************************************************************)
(* Bounds                                                                  *)
(***************************************************************************)
\* component instances constructed in one run
MaxInstances == 2

\* features in a fetched collection
MaxFeatures == 2

(***************************************************************************)
(* JavaScript values                                                       *)
(***************************************************************************)
Null == [t |-> "null"]

Undefined == [t |-> "undefined"]

Str(s) == [t |-> "string", v |-> s]

Obj(f) == [t |-> "object", bag |-> f]

IsNullish(x) == x.t \in {"null", "undefined"}

\* a ?? b
Coalesce(a, b) == IF IsNullish(a) THEN b ELSE a

\* o?.k on a property bag: undefined when o is nullish or has no key k
OptGet(o, k) ==
    IF IsNullish(o) THEN Undefined
    ELSE IF k \in DOMAIN o.bag THEN o.bag[k] ELSE Undefined

\* the own properties copied by the spread {...o}; nothing for null or undefined
SpreadBag(o) == IF IsNullish(o) THEN <<>> ELSE o.bag

\* truthiness of a string-or-null state cell
Truthy(x) == x.t = "object" \/ (x.t = "string" /\ x.v # "")

\* an Error object, and the completion records of a call
ErrorObj(name, message) == [t |-> "Error", name |-> name, message |-> message]

Return(v) == [kind |-> "return", value |-> v]

Throw(e) == [kind |-> "throw", value |-> e]

Pending == [kind |-> "pending"]

(***************************************************************************)
(* Naming table                                                            *)
(***************************************************************************)
\* The entries of the Map literal, in source order.  The value of the
\* Qatar entry holds two non-ASCII characters in the source; they are
\* transliterated here.
dwaparaEntries == <<
    <<"India", "Bharata Khanda">>,
    <<"Sri Lanka", "Lanka">>,
    <<"Pakistan", "Gandhara">>,
    <<"Afghanistan", "Kamboja">>,
    <<"Bangladesh", "Vanga">>,
    <<"Nepal", "Kirati Realm">>,
    <<"Bhutan", "Druk Yul">>,
    <<"China", "Mleccha Orient">>,
    <<"Myanmar", "Suvannabhumi">>,
    <<"Thailand", "Nagadipa">>,
    <<"Laos", "Ravana-gahvara">>,
    <<"Cambodia", "Kambuja Desa">>,
    <<"Vietnam", "Uluka Province">>,
    <<"Indonesia", "Dvipa Archipelago">>,
    <<"Malaysia", "Surparaka Reach">>,
    <<"Singapore", "Temasek Dvipa">>,
    <<"Japan", "Yamato Isles">>,
    <<"Mongolia", "Huna Steppe">>,
    <<"Russia", "Uttara Kuru">>,
    <<"Kazakhstan", "Saka Plateau">>,
    <<"Uzbekistan", "Tushara Realm">>,
    <<"Turkmenistan", "Parama Kamboja">>,
    <<"Iran", "Parsava Kingdom">>,
    <<"Iraq", "Madra Basin">>,
    <<"Syria", "Aratta Frontier">>,
    <<"Turkey", "Pahlava Reach">>,
    <<"Egypt", "Misra Desh">>,
    <<"Ethiopia", "Habesha Janapada">>,
    <<"Somalia", "Barbarika Coast">>,
    <<"Kenya", "Shakulya Plains">>,
    <<"Tanzania", "Matanga Plateau">>,
    <<"South Africa", "Hrasva Dwipa">>,
    <<"United States of America", "Pushkara Continent">>,
    <<"Canada", "Uttara Pushkara">>,
    <<"Mexico", "Maya Khanda">>,
    <<"Brazil", "Nila Varsha">>,
    <<"Argentina", "Hemanta Varsha">>,
    <<"Peru", "Garuda Andes">>,
    <<"Chile", "Sarpa Valley">>,
    <<"Bolivia", "Yaksha Highlands">>,
    <<"Colombia", "Kartika Basin">>,
    <<"Venezuela", "Bhaga Canopy">>,
    <<"United Kingdom", "Svarnadvipa Isles">>,
    <<"France", "Sindhuvisha Territory">>,
    <<"Spain", "Nagavanshi Coast">>,
    <<"Portugal", "Ratnakara Gate">>,
    <<"Germany", "Daityan Foothold">>,
    <<"Italy", "Vanara Peninsula">>,
    <<"Greece", "Yavana Polis">>,
    <<"Poland", "Kuru Outlands">>,
    <<"Ukraine", "Sindhava Plains">>,
    <<"Belarus", "Vasati Corridor">>,
    <<"Norway", "Deva Fjords">>,
    <<"Sweden", "Yaksha Tundra">>,
    <<"Finland", "Marut Tundra">>,
    <<"Iceland", "Shveta Dvipa">>,
    <<"Greenland", "Airavata Glacier">>,
    <<"Saudi Arabia", "Arabia Khanda">>,
    <<"United Arab Emirates", "Ratna Port">>,
    <<"Qatar", "Sankha Harbor">>,
    <<"Bahrain", "Nagadipa Pearl">>,
    <<"Oman", "Sagara Gate">>,
    <<"Yemen", "Sabha Coast">>,
    <<"Israel", "Shurasena Corridor">>,
    <<"Jordan", "Nishada Marches">>,
    <<"Lebanon", "Vanara Ridge">>,
    <<"Morocco", "Ketumala Coast">>,
    <<"Algeria", "Ruru Expanse">>,
    <<"Tunisia", "Sudarshana Bend">>,
    <<"Libya", "Gandhara West">>,
    <<"Sudan", "Kush Desh">>,
    <<"South Sudan", "Shalya March">>,
    <<"Chad", "Yaksha Sands">>,
    <<"Niger", "Rishika Dunes">>,
    <<"Mali", "Bhima Basin">>,
    <<"Nigeria", "Anarta Delta">>,
    <<"Ghana", "Kuruvarsha">>,
    <<"Ivory Coast", "Duhkha Shore">>,
    <<"Cameroon", "Rakshasa Wilds">>,
    <<"Democratic Republic of the Congo", "Naga Rainforest">>,
    <<"Republic of the Congo", "Naga Littoral">>,
    <<"Angola", "Ketu Savannah">>,
    <<"Namibia", "Pampa Estuary">>,
    <<"Botswana", "Sattva Plains">>,
    <<"Zimbabwe", "Shiva Plateau">>,
    <<"Mozambique", "Sagara Estuary">>,
    <<"Madagascar", "Mahodaya Isle">>,
    <<"Australia", "Ajagara Continent">>,
    <<"New Zealand", "Sura Isles">>,
    <<"Papua New Guinea", "Yakshini Archipelago">>,
    <<"Philippines", "Nagapattinam Isles">>,
    <<"South Korea", "Agnivanshi Peninsula">>,
    <<"North Korea", "Prachya March">>,
    <<"Bhutan", "Druk Yul">>,
    <<"Iceland", "Shveta Dvipa">>
>>

\* new Map(entries): a later entry with the same key replaces the earlier one
MapHas(key) == \E i \in DOMAIN dwaparaEntries : dwaparaEntries[i][1] = key

LastIndexOf(key) ==
    CHOOSE i \in DOMAIN dwaparaEntries :
        /\ dwaparaEntries[i][1] = key
        /\ \A j \in DOMAIN dwaparaEntries : dwaparaEntries[j][1] = key => j <= i

\* dwaparaLookup.get(name): exact match on string keys, undefined otherwise
dwaparaLookup(name) ==
    IF name.t = "string" /\ MapHas(name.v)
    THEN Str(dwaparaEntries[LastIndexOf(name.v)][2])
    ELSE Undefined

(***************************************************************************)
(* Enrichment transform                                                    *)
(***************************************************************************)
UnknownRealm == Str("Unknown Realm")

\* variant: the administrative name is tried before the long name
ResolveModernNameAdminFirst(properties) ==
    Coalesce(OptGet(properties, "ADMIN"),
        Coalesce(OptGet(properties, "NAME_LONG"),
            Coalesce(OptGet(properties, "SOVEREIGNT"), UnknownRealm)))

\* variant: a DWAPARA_NAME already on the feature is taken as the modern name
ResolveModernNameFromDerived(properties) ==
    Coalesce(OptGet(properties, "DWAPARA_NAME"),
        Coalesce(OptGet(properties, "NAME_LONG"),
            Coalesce(OptGet(properties, "ADMIN"),
                Coalesce(OptGet(properties, "SOVEREIGNT"), UnknownRealm))))

\* the ?? chain of enrichDataset
ResolveModernName(properties) ==
    Coalesce(OptGet(properties, "NAME_LONG"),
        Coalesce(OptGet(properties, "ADMIN"),
            Coalesce(OptGet(properties, "SOVEREIGNT"), UnknownRealm)))

\* variant: the table is consulted with the ADMIN field, not the resolved name
ResolveDwaparaNameByAdmin(properties) ==
    Coalesce(dwaparaLookup(OptGet(properties, "ADMIN")), ResolveModernName(properties))

ResolveDwaparaName(properties) ==
    Coalesce(dwaparaLookup(ResolveModernName(properties)), ResolveModernName(properties))

\* { ...feature.properties, DWAPARA_NAME: dwaparaName, MODERN_NAME: modernName }
EnrichedProperties(properties) ==
    LET old == SpreadBag(properties)
    IN  Obj([k \in DOMAIN old \cup {"DWAPARA_NAME", "MODERN_NAME"} |->
                IF k = "DWAPARA_NAME" THEN ResolveDwaparaName(properties)
                ELSE IF k = "MODERN_NAME" THEN ResolveModernName(properties)
                ELSE old[k]])

\* variant: the property bag is read without ?. and a missing bag throws
FeatureThrowsOnMissingBag(feature) ==
    IsNullish(feature) \/ IsNullish(feature.properties)

\* the callback of collection.features.map; reading .properties of a null
\* feature throws
FeatureThrows(feature) == IsNullish(feature)

\* variant: the feature is passed through without the derived fields
EnrichFeatureRaw(feature) == feature

EnrichFeature(feature) ==
    [feature EXCEPT !.properties = EnrichedProperties(feature.properties)]

FeaturesErrorMessage == "Cannot read properties of null (reading 'features')"

MapErrorMessage == "Cannot read properties of undefined (reading 'map')"

NullErrorMessage == "Cannot read properties of null (reading 'properties')"

\* enrichDataset(collection) as a completion: the new collection, or the
\* TypeError raised on a body that is not a feature collection
enrichDataset(collection) ==
    IF IsNullish(collection)
    THEN Throw(ErrorObj("TypeError", FeaturesErrorMessage))
    ELSE IF collection.features.t # "array"
    THEN Throw(ErrorObj("TypeError", MapErrorMessage))
    ELSE IF \E i \in DOMAIN collection.features.items :
                FeatureThrows(collection.features.items[i])
    THEN Throw(ErrorObj("TypeError", NullErrorMessage))
    ELSE Return([collection EXCEPT !.features =
                    [t |-> "array",
                     items |-> [i \in DOMAIN collection.features.items |->
                                   EnrichFeature(collection.features.items[i])]]])

(***************************************************************************)
(* Object identity.  The collection, its features array, every feature,    *)
(* every property bag and every geometry is an object; an object is named  *)
(* by where it was created.                                                *)
(***************************************************************************)
ObjectRef(origin, part, index) == [origin |-> origin, part |-> part, index |-> index]

\* the objects reachable from the argument of enrichDataset
ArgumentObjects(collection) ==
    {ObjectRef("argument", "collection", 0), ObjectRef("argument", "features", 0)}
        \cup { ObjectRef("argument", "feature", i) : i \in DOMAIN collection.features.items }
        \cup { ObjectRef("argument", "geometry", i) : i \in DOMAIN collection.features.items }
        \cup { ObjectRef("argument", "properties", i) :
                    i \in { j \in DOMAIN collection.features.items :
                                collection.features.items[j].properties.t = "object" } }

\* The objects reachable from the result: the object literals and the array
\* returned by map are new; `...feature` copies the reference held in
\* feature.geometry, so each new feature holds the argument's geometry object.
ResultObjects(collection) ==
    {ObjectRef("result", "collection", 0), ObjectRef("result", "features", 0)}
        \cup { ObjectRef("result", "feature", i) : i \in DOMAIN collection.features.items }
        \cup { ObjectRef("result", "properties", i) : i \in DOMAIN collection.features.items }
        \cup { ObjectRef("argument", "geometry", i) : i \in DOMAIN collection.features.items }

(***************************************************************************)
(* Inputs of the model: raw features, fetched bodies, settlements          *)
(***************************************************************************)
NameKeys == {"NAME_LONG", "ADMIN", "SOVEREIGNT"}

\* values a name field may hold: a mapped name, an unmapped name, a name
\* that differs from a key only by case, the empty string, JSON null
NameValues == {Str("India"), Str("Atlantis"), Str("india"), Str(""), Null}

\* property bags over the three name fields, each absent or holding a value
NameBags ==
    UNION { [ks -> NameValues] : ks \in SUBSET NameKeys }

Feature(properties) ==
    [t |-> "object", type |-> "Feature", geometry |-> "polygon", properties |-> properties]

\* bags that also carry an unrelated field, or stale derived fields
ExtraBags ==
    { [POP_EST |-> Str("1000")],
      [ADMIN |-> Str("Bhutan"), POP_EST |-> Str("1000")],
      [ADMIN |-> Str("India"), DWAPARA_NAME |-> Str("Stale"), MODERN_NAME |-> Str("Old")],
      [SOVEREIGNT |-> Str("Iceland"), DWAPARA_NAME |-> Null] }

RawFeatures ==
    { Feature(Obj(b)) : b \in NameBags \cup ExtraBags }
        \cup { Feature(Null), Feature(Undefined) }

\* the features used to build the bodies the lifecycle fetches
PoolFeatures ==
    { Feature(Obj([ADMIN |-> Str("India")])),
      Feature(Obj([NAME_LONG |-> Str("Atlantis"), POP_EST |-> Str("1000")])) }

Array(items) == [t |-> "array", items |-> items]

Collection(items) ==
    [t |-> "object", type |-> "FeatureCollection", features |-> Array(items)]

SeqsUpTo(S, n) == UNION { [1..k -> S] : k \in 0..n }

\* bodies that parse as JSON: feature collections, and values that are not
\* feature collections (null, an object without features, a null feature)
WellFormedBodies == { Collection(items) : items \in SeqsUpTo(PoolFeatures, MaxFeatures) }

MalformedBodies ==
    { Null,
      [t |-> "object", type |-> "FeatureCollection", features |-> Undefined],
      Collection(<<Null>>) }

\* A settlement of an awaited promise: fulfilled with a value, or rejected
\* with a thrown value.
Fulfil(of, v) == [of |-> of, kind |-> "return", value |-> v]

Reject(of, e) == [of |-> of, kind |-> "throw", value |-> e]

Response(ok, statusText) == [t |-> "object", ok |-> ok, statusText |-> statusText]

\* what `await fetch(...)` can complete with: a response, or a thrown value
\* (an Error, an Error with an empty message, a value that is not an Error)
FetchSettlements ==
    { Fulfil("fetch", Response(TRUE, "OK")),
      Fulfil("fetch", Response(FALSE, "Not Found")),
      Fulfil("fetch", Response(FALSE, "")),
      Reject("fetch", ErrorObj("TypeError", "Failed to fetch")),
      Reject("fetch", ErrorObj("Error", "")),
      Reject("fetch", Str("aborted")) }

\* what `await response.json()` can complete with
JsonSettlements ==
    { Fulfil("json", b) : b \in WellFormedBodies \cup MalformedBodies }
        \cup { Reject("json", ErrorObj("SyntaxError", "Unexpected end of JSON input")) }

(***************************************************************************)
(* Load lifecycle                                                          *)
(***************************************************************************)
\* The closure of one run of the loading effect: the instance whose setters
\* it holds, the flag isSubscribed, and the position of loadDataset (at
\* `await fetch`, at `await response.json()`, or returned).
Activation(i) == [inst |-> i, isSubscribed |-> TRUE, pc |-> "fetch"]

\* variant: loadDataset calls fetch twice
IssuedRequestsTwice(a) ==
    << [act |-> a, settled |-> FALSE], [act |-> a, settled |-> FALSE] >>

\* the calls of fetch made by loadDataset of activation a before it suspends
IssuedRequests(a) == << [act |-> a, settled |-> FALSE] >>

InFlight(a) == { r \in DOMAIN requests : requests[r].act = a /\ ~requests[r].settled }

Current == { a \in DOMAIN acts : acts[a].inst = inst }

Attached == { a \in DOMAIN acts : acts[a].isSubscribed }

\* variant: useState(true) for isMounted
InitMounted ==
    /\ inst = 1
    /\ dataset = Null
    /\ error = Null
    /\ isMounted = TRUE
    /\ acts = <<>>
    /\ requests = <<>>
    /\ input = Null
    /\ output = Pending
    /\ again = Pending
    /\ layers = <<>>

\* useState(null), useState(null), useState(false)
Init ==
    /\ inst = 1
    /\ dataset = Null
    /\ error = Null
    /\ isMounted = FALSE
    /\ acts = <<>>
    /\ requests = <<>>
    /\ input = Null
    /\ output = Pending
    /\ again = Pending
    /\ layers = <<>>

\* variant: the cells live outside the instance and survive a remount
ConstructKeepingCells ==
    /\ inst < MaxInstances
    /\ isMounted
    /\ Attached = {}
    /\ inst' = inst + 1
    /\ isMounted' = FALSE
    /\ UNCHANGED <<dataset, error, acts, requests, input, output, again, layers>>

\* A new instance of the component is rendered after the previous one was
\* unmounted: its state cells start from the useState initial values.
Construct ==
    /\ inst < MaxInstances
    /\ isMounted
    /\ Attached = {}
    /\ inst' = inst + 1
    /\ dataset' = Null
    /\ error' = Null
    /\ isMounted' = FALSE
    /\ UNCHANGED <<acts, requests, input, output, again, layers>>

\* variant: one isSubscribed flag for the component, set again by every run
ActivateSharedFlag ==
    /\ Attached = {}
    /\ \/ Current = {}
       \/ /\ Cardinality(Current) = 1
          /\ \A a \in Current : acts[a].pc = "fetch"
    /\ isMounted' = TRUE
    /\ acts' = Append([a \in DOMAIN acts |->
                        IF a \in Current THEN [acts[a] EXCEPT !.isSubscribed = TRUE]
                        ELSE acts[a]],
                     Activation(inst))
    /\ requests' = requests \o IssuedRequests(Len(acts) + 1)
    /\ UNCHANGED <<inst, dataset, error, input, output, again, layers>>

\* The effects run: setIsMounted(true); isSubscribed = true; void loadDataset(),
\* which runs up to `await fetch(...)`.  They run when the instance mounts,
\* and once more right after the first cleanup when the mount is replayed
\* (strict mode), before anything the first run awaited has settled.
Activate ==
    /\ Attached = {}
    /\ \/ Current = {}
       \/ /\ Cardinality(Current) = 1
          /\ \A a \in Current : acts[a].pc = "fetch"
    /\ isMounted' = TRUE
    /\ acts' = Append(acts, Activation(inst))
    /\ requests' = requests \o IssuedRequests(Len(acts) + 1)
    /\ UNCHANGED <<inst, dataset, error, input, output, again, layers>>

\* The cleanup of the loading effect: isSubscribed = false
Detach ==
    \E a \in Attached :
        /\ acts' = [acts EXCEPT ![a].isSubscribed = FALSE]
        /\ UNCHANGED <<inst, dataset, error, isMounted, requests, input, output, again, layers>>

\* variant: the generic message for every thrown value
ErrorMessageGeneric(err) == "Unknown error while loading dataset"

\* err instanceof Error ? err.message : 'Unknown error while loading dataset'
ErrorMessage(err) ==
    IF err.t = "Error" THEN err.message ELSE "Unknown error while loading dataset"

\* variant: the setters are called without looking at isSubscribed
MayWriteAlways(a) == TRUE

\* the guard `if (isSubscribed)` in front of setDataset and setError
MayWrite(a) == acts[a].isSubscribed

\* A state setter called from activation a.  The cells belong to the instance
\* that ran the effect; a setter of an instance that is gone changes nothing.
SetCells(a, newDataset, newError) ==
    /\ dataset' = IF acts[a].inst = inst THEN newDataset ELSE dataset
    /\ error' = IF acts[a].inst = inst THEN newError ELSE error

\* variant: the catch block swallows the failure
CatchSilently(a, err) ==
    /\ UNCHANGED <<dataset, error>>
    /\ acts' = [acts EXCEPT ![a].pc = "done"]

\* the catch block of loadDataset, after which the function returns
Catch(a, err) ==
    /\ IF MayWrite(a)
       THEN SetCells(a, dataset, Str(ErrorMessage(err)))
       ELSE UNCHANGED <<dataset, error>>
    /\ acts' = [acts EXCEPT ![a].pc = "done"]

\* variant: the message is the status text alone
StatusErrorBare(response) == ErrorObj("Error", response.statusText)

\* new Error(`Failed to load dataset: ${response.statusText}`)
StatusError(response) ==
    ErrorObj("Error", "Failed to load dataset: " \o response.statusText)

\* `await fetch(...)` settles; a response that is not ok is thrown as an Error
FetchSettle(a, settlement) ==
    /\ acts[a].pc = "fetch"
    /\ \E r \in InFlight(a) : requests' = [requests EXCEPT ![r].settled = TRUE]
    /\ IF settlement.kind = "throw"
       THEN Catch(a, settlement.value)
       ELSE IF ~settlement.value.ok
       THEN Catch(a, StatusError(settlement.value))
       ELSE /\ acts' = [acts EXCEPT ![a].pc = "json"]
            /\ UNCHANGED <<dataset, error>>
    /\ UNCHANGED <<inst, isMounted, input, output, again, layers>>

\* variant: the parsed body is stored before it is enriched
JsonSettleStoreFirst(a, settlement) ==
    /\ acts[a].pc = "json"
    /\ IF settlement.kind = "throw"
       THEN Catch(a, settlement.value)
       ELSE IF ~MayWrite(a)
       THEN /\ acts' = [acts EXCEPT ![a].pc = "done"]
            /\ UNCHANGED <<dataset, error>>
       ELSE IF enrichDataset(settlement.value).kind = "throw"
       THEN /\ SetCells(a, settlement.value,
                        Str(ErrorMessage(enrichDataset(settlement.value).value)))
            /\ acts' = [acts EXCEPT ![a].pc = "done"]
       ELSE /\ SetCells(a, enrichDataset(settlement.value).value, error)
            /\ acts' = [acts EXCEPT ![a].pc = "done"]
    /\ UNCHANGED <<inst, isMounted, requests, input, output, again, layers>>

\* `await response.json()` settles; the body is enriched and stored
JsonSettle(a, settlement) ==
    /\ acts[a].pc = "json"
    /\ IF settlement.kind = "throw"
       THEN Catch(a, settlement.value)
       ELSE IF ~MayWrite(a)
       THEN /\ acts' = [acts EXCEPT ![a].pc = "done"]
            /\ UNCHANGED <<dataset, error>>
       ELSE IF enrichDataset(settlement.value).kind = "throw"
       THEN Catch(a, enrichDataset(settlement.value).value)
       ELSE /\ SetCells(a, enrichDataset(settlement.value).value, error)
            /\ acts' = [acts EXCEPT ![a].pc = "done"]
    /\ UNCHANGED <<inst, isMounted, requests, input, output, again, layers>>

FetchSettles == \E a \in DOMAIN acts : \E s \in FetchSettlements : FetchSettle(a, s)

JsonSettles == \E a \in DOMAIN acts : \E s \in JsonSettlements : JsonSettle(a, s)

Next ==
    \/ Construct
    \/ Activate
    \/ Detach
    \/ FetchSettles
    \/ JsonSettles

Spec == Init /\ [][Next]_vars

\* The same component when every promise a load awaits does settle: a
\* settlement that is due is delivered to its continuation.
FairSpec ==
    /\ Init
    /\ [][Next]_vars
    /\ WF_vars(FetchSettles)
    /\ WF_vars(JsonSettles)

(***************************************************************************)
(* enrichDataset on its own: the argument is drawn from the bounded inputs *)
(* and the function is applied once.                                       *)
(***************************************************************************)
EnrichInputs ==
    { Collection(<<f>>) : f \in RawFeatures }
        \cup WellFormedBodies \cup MalformedBodies

EnrichInit ==
    /\ inst = 1
    /\ dataset = Null
    /\ error = Null
    /\ isMounted = FALSE
    /\ acts = <<>>
    /\ requests = <<>>
    /\ input \in EnrichInputs
    /\ output = Pending
    /\ again = Pending
    /\ layers = <<>>

\* What the argument holds after the call: map and the two object literals
\* build new values, and nothing is assigned through the argument.
ArgumentAfter(collection) == collection

ApplyEnrich ==
    /\ output = Pending
    /\ output' = enrichDataset(input)
    /\ input' = ArgumentAfter(input)
    /\ UNCHANGED <<inst, dataset, error, isMounted, acts, requests, again, layers>>

\* enrichDataset is called once more, on the collection it returned
ReapplyEnrich ==
    /\ output.kind = "return"
    /\ again = Pending
    /\ again' = enrichDataset(output.value)
    /\ UNCHANGED <<inst, dataset, error, isMounted, acts, requests, input, output, layers>>

EnrichNext ==
    \/ ApplyEnrich
    \/ ReapplyEnrich

EnrichSpec == EnrichInit /\ [][EnrichNext]_vars

(***************************************************************************)
(* Presentation shell                                                      *)
(***************************************************************************)
\* the chain of early returns of the render body
View ==
    IF ~isMounted THEN "placeholder"
    ELSE IF Truthy(error) THEN "error"
    ELSE IF ~Truthy(dataset) THEN "loading"
    ELSE "map"

\* the lifecycle state held by the three cells
LifecycleState ==
    IF ~isMounted THEN "Uninitialized"
    ELSE IF error.t # "null" THEN "Error"
    ELSE IF dataset.t # "null" THEN "Ready"
    ELSE "Loading"

(***************************************************************************)
(* Interactive map: the layers of the GeoJSON component, their tooltips    *)
(* and their hover styles                                                  *)
(***************************************************************************)
\* The numeric options are written as their literals.
defaultStyle ==
    [color |-> "#38bdf8", weight |-> "1", fillColor |-> "#0ea5e9", fillOpacity |-> "0.22"]

\* variant: the emphasized style adds an option the default style does not reset
hoverStyleWithDash ==
    [color |-> "#38bdf8", weight |-> "2.5", fillColor |-> "#0ea5e9",
     fillOpacity |-> "0.38", dashArray |-> "4"]

\* { ...defaultStyle, weight: 2.5, fillOpacity: 0.38 }
hoverStyle == [defaultStyle EXCEPT !.weight = "2.5", !.fillOpacity = "0.38"]

\* useMemo(() => defaultStyle, [])
featureStyle == defaultStyle

\* target.setStyle(style): the given options replace the layer's options of
\* the same name, the others stay
SetStyle(current, style) ==
    [k \in DOMAIN current \cup DOMAIN style |->
        IF k \in DOMAIN style THEN style[k] ELSE current[k]]

\* tooltipLines.join('\n')
RECURSIVE JoinLines(_)
JoinLines(lines) ==
    IF Len(lines) = 0 THEN ""
    ELSE IF Len(lines) = 1 THEN lines[1]
    ELSE lines[1] \o "\n" \o JoinLines(Tail(lines))

\* variant: the second line is pushed whether or not the names differ
TooltipLinesAlways(feature) ==
    << Coalesce(OptGet(feature.properties, "DWAPARA_NAME"), Str("Unnamed Dominion")).v,
       "Modern: " \o Coalesce(OptGet(feature.properties, "MODERN_NAME"),
                        Coalesce(OptGet(feature.properties, "DWAPARA_NAME"),
                                 Str("Unnamed Dominion"))).v >>

\* the tooltipLines array of handleEachFeature
TooltipLines(feature) ==
    LET dwaparaName ==
            Coalesce(OptGet(feature.properties, "DWAPARA_NAME"), Str("Unnamed Dominion"))
        modernName == Coalesce(OptGet(feature.properties, "MODERN_NAME"), dwaparaName)
    IN  IF modernName # dwaparaName
        THEN <<dwaparaName.v, "Modern: " \o modernName.v>>
        ELSE <<dwaparaName.v>>

\* the layers exist once the render body has returned the map
MapRendered == isMounted /\ ~Truthy(error) /\ Truthy(dataset)

\* the datasets the lifecycle can store: enrichDataset of a parsed body
EnrichedDatasets ==
    { enrichDataset(c).value : c \in { x \in EnrichInputs : enrichDataset(x).kind = "return" } }

\* the component has loaded a dataset and renders the map
MapInit ==
    /\ inst = 1
    /\ dataset \in EnrichedDatasets
    /\ error = Null
    /\ isMounted = TRUE
    /\ acts = << [inst |-> 1, isSubscribed |-> TRUE, pc |-> "done"] >>
    /\ requests = << [act |-> 1, settled |-> TRUE] >>
    /\ input = Null
    /\ output = Pending
    /\ again = Pending
    /\ layers = <<>>

\* handleEachFeature(feature, layer) for the next feature of the dataset: the
\* layer is created with the style of the GeoJSON component and gets its tooltip
BindFeature ==
    /\ MapRendered
    /\ Len(layers) < Len(dataset.features.items)
    /\ layers' = Append(layers,
            [tooltip |-> JoinLines(TooltipLines(dataset.features.items[Len(layers) + 1])),
             style |-> featureStyle])
    /\ UNCHANGED <<inst, dataset, error, isMounted, acts, requests, input, output, again>>

\* handleFeatureHover: target.setStyle(hoverStyle)
HoverEnter(i) ==
    /\ layers' = [layers EXCEPT ![i].style = SetStyle(@, hoverStyle)]
    /\ UNCHANGED <<inst, dataset, error, isMounted, acts, requests, input, output, again>>

\* handleFeatureLeave: target.setStyle(featureStyle)
HoverLeave(i) ==
    /\ layers' = [layers EXCEPT ![i].style = SetStyle(@, featureStyle)]
    /\ UNCHANGED <<inst, dataset, error, isMounted, acts, requests, input, output, again>>

HoverEnters == \E i \in DOMAIN layers : HoverEnter(i)

HoverLeaves == \E i \in DOMAIN layers : HoverLeave(i)

MapNext ==
    \/ BindFeature
    \/ HoverEnters
    \/ HoverLeaves

MapSpec == MapInit /\ [][MapNext]_vars

TypeOK ==
    /\ inst \in 1..MaxInstances
    /\ isMounted \in BOOLEAN
    /\ error.t \in {"null", "string"}
    /\ dataset.t \in {"null", "object"}

(***************************************************************************)
(* Properties of the load lifecycle                                        *)
(***************************************************************************)
\* activation a takes a step of loadDataset
Steps(a) == acts[a].pc # acts'[a].pc

\* activation a returns from loadDataset in this step
Finishes(a) == acts[a].pc # "done" /\ acts'[a].pc = "done"

CellsUnchanged == dataset' = dataset /\ error' = error

\* the step is activation a handling settlement s
Handles(a, s) ==
    /\ Steps(a)
    /\ \/ s \in FetchSettlements /\ FetchSettle(a, s)
       \/ s \in JsonSettlements /\ JsonSettle(a, s)

Settlements == FetchSettlements \cup JsonSettlements

\* C1: once an activation is detached, no step of its loadDataset calls
\* setDataset or setError, whatever its fetch or its body settles with; and
\* while the instance has no attached activation its cells keep the values
\* they had at detach time.
C1_DetachedNeverWrites ==
    [][/\ \A a \in DOMAIN acts :
              (~acts[a].isSubscribed /\ Steps(a)) => CellsUnchanged
       /\ (Attached = {} /\ Attached' = {} /\ inst' = inst) => CellsUnchanged]_vars

\* the only activation of the instance was detached, its load has run to
\* its end, and the instance still shows Loading
C1_Witness ==
    /\ LifecycleState = "Loading"
    /\ Cardinality(Current) = 1
    /\ \A a \in Current : ~acts[a].isSubscribed /\ acts[a].pc = "done"

IsNotOk(settlement) ==
    settlement.of = "fetch" /\ settlement.kind = "return" /\ ~settlement.value.ok

\* C2: when an attached activation's fetch returns a response that is not
\* ok, the state becomes Error with a non-empty message and the error view
\* is selected (not the map).
C2_NotOkGivesError ==
    [][\A a \in DOMAIN acts : \A s \in FetchSettlements :
          (acts[a].isSubscribed /\ IsNotOk(s) /\ Handles(a, s))
              => /\ LifecycleState' = "Error"
                 /\ error'.v # ""
                 /\ View' = "error"]_vars

\* the response had an empty status text
C2_Witness ==
    /\ error = Str("Failed to load dataset: ")
    /\ View = "error"
    /\ \E a \in Attached : acts[a].pc = "done"

\* the settlement makes the load fail: a thrown value, a response that is
\* not ok, or a parsed body on which enrichment throws
IsFailure(settlement) ==
    \/ settlement.kind = "throw"
    \/ IsNotOk(settlement)
    \/ /\ settlement.of = "json"
       /\ settlement.kind = "return"
       /\ enrichDataset(settlement.value).kind = "throw"

\* C3: every failure of an attached activation's load, whatever the thrown
\* value and its message, ends the load with the state Error and the error
\* view selected; the state never stays Loading.
C3_EveryFailureShowsError ==
    [][\A a \in DOMAIN acts : \A s \in Settlements :
          (acts[a].isSubscribed /\ Steps(a) /\ IsFailure(s) /\ Handles(a, s))
              => /\ Finishes(a)
                 /\ LifecycleState' = "Error"
                 /\ View' = "error"]_vars

ViewOf(state) ==
    CASE state = "Uninitialized" -> "placeholder"
      [] state = "Loading" -> "loading"
      [] state = "Error" -> "error"
      [] state = "Ready" -> "map"

\* C4: the selected view is the one that belongs to the lifecycle state:
\* Uninitialized the placeholder, Loading the loading placeholder, Error the
\* error display, Ready the map.
C4_ViewFollowsState == View = ViewOf(LifecycleState)

\* C5: within one instance Ready and Error are terminal (the cells never
\* change again), and a new activation starts in Loading with its load at
\* the fetch, whatever the earlier activations ended with.
C5_TerminalAndFresh ==
    [][/\ (LifecycleState \in {"Ready", "Error"} /\ inst' = inst)
              => (CellsUnchanged /\ LifecycleState' = LifecycleState)
       /\ Len(acts') > Len(acts)
              => /\ LifecycleState' = "Loading"
                 /\ acts'[Len(acts')].pc = "fetch"
                 /\ \E r \in DOMAIN requests' :
                        requests'[r].act = Len(acts') /\ ~requests'[r].settled]_vars

\* a second instance has reached Ready after the first instance had
\* run a load to its end
C5_Witness ==
    /\ inst = 2
    /\ LifecycleState = "Ready"
    /\ \E a \in DOMAIN acts : acts[a].inst = 1 /\ acts[a].pc = "done"
    /\ \E a \in Current : acts[a].pc = "done" /\ acts[a].isSubscribed

RequestsOf(a) == { r \in DOMAIN requests : requests[r].act = a }

\* C6: the number of fetches issued equals the number of activations, each
\* activation has issued exactly one, and none has two in flight.
C6_OneFetchPerActivation ==
    /\ Len(requests) = Len(acts)
    /\ \A a \in DOMAIN acts :
          /\ Cardinality(RequestsOf(a)) = 1
          /\ Cardinality(InFlight(a)) <= 1

\* two activations of one instance, the fetch of the first still in flight
C6_Witness ==
    /\ Cardinality(Current) = 2
    /\ \E a \in Current : ~acts[a].isSubscribed /\ InFlight(a) # {}
    /\ \E a \in Current : acts[a].isSubscribed /\ acts[a].pc = "done"

\* C7: the state is Uninitialized on construction, with no fetch issued for
\* the instance; it leaves Uninitialized only to Loading, in a step that
\* issues a fetch; Ready and Error are entered only from Loading.
C7_LoadingFirst ==
    /\ (LifecycleState = "Uninitialized" /\ requests = <<>>)
    /\ [][/\ inst' # inst =>
                /\ LifecycleState' = "Uninitialized"
                /\ \A r \in DOMAIN requests' : acts'[requests'[r].act].inst # inst'
          /\ (LifecycleState = "Uninitialized" /\ LifecycleState' # "Uninitialized") =>
                /\ LifecycleState' = "Loading"
                /\ Len(requests') = Len(requests) + 1
          /\ (LifecycleState' \in {"Ready", "Error"} /\ LifecycleState' # LifecycleState) =>
                LifecycleState = "Loading"]_vars

\* a second instance has gone from Uninitialized through Loading to Error
C7_Witness ==
    /\ LifecycleState = "Error"
    /\ inst = 2

HasDerivedFields(feature) ==
    /\ feature.t = "object"
    /\ feature.properties.t = "object"
    /\ {"MODERN_NAME", "DWAPARA_NAME"} \subseteq DOMAIN feature.properties.bag

\* C8: a stored dataset is always fully enriched (every feature carries
\* MODERN_NAME and DWAPARA_NAME), and a dataset is stored only by the step
\* in which an activation's body has settled with a parsed value.
C8_StoredDatasetIsEnriched ==
    /\ [](dataset.t = "object" =>
            \A i \in DOMAIN dataset.features.items :
                HasDerivedFields(dataset.features.items[i]))
    /\ [][(dataset' # dataset /\ dataset'.t = "object") =>
            \E a \in DOMAIN acts : \E s \in JsonSettlements :
                /\ s.kind = "return"
                /\ acts[a].pc = "json"
                /\ Handles(a, s)]_vars

C8_Witness ==
    /\ dataset.t = "object"
    /\ Len(dataset.features.items) = MaxFeatures

\* C17: the stored message is "Failed to load dataset: " with the status
\* text for a response that is not ok, the message of a thrown Error, and
\* "Unknown error while loading dataset" for any other thrown value.
C17_ErrorMessageText ==
    [][\A a \in DOMAIN acts : \A s \in Settlements :
          (acts[a].isSubscribed /\ (IsNotOk(s) \/ s.kind = "throw") /\ Handles(a, s)) =>
              /\ IsNotOk(s) =>
                    error' = Str("Failed to load dataset: " \o s.value.statusText)
              /\ (s.kind = "throw" /\ s.value.t = "Error") =>
                    error' = Str(s.value.message)
              /\ (s.kind = "throw" /\ s.value.t # "Error") =>
                    error' = Str("Unknown error while loading dataset")]_vars

\* a value that is not an Error was thrown
C17_Witness ==
    /\ error = Str("Unknown error while loading dataset")
    /\ \E a \in Attached : acts[a].pc = "done"

\* C18: no state holds both an error and a dataset; a step writes at most
\* one of the two cells, only as an activation's load returns, and a load
\* that has returned takes no further step.
C18_ErrorExcludesDataset ==
    /\ [](~(error.t # "null" /\ dataset.t # "null"))
    /\ [][/\ dataset' # dataset => error' = error
          /\ (~CellsUnchanged /\ inst' = inst) => \E a \in DOMAIN acts : Finishes(a)
          /\ \A a \in DOMAIN acts : acts[a].pc = "done" => acts'[a].pc = "done"]_vars

\* enrichment threw on a parsed body: the error is stored and no dataset
C18_Witness ==
    /\ error = Str("Cannot read properties of null (reading 'properties')")
    /\ dataset = Null
    /\ View = "error"

\* C19: a step that writes the cells is a step of the latest activation of
\* the instance, which is attached; an earlier, detached activation never
\* writes, however its fetch interleaves with the later one.
C19_OnlyLatestActivationWrites ==
    [][(~CellsUnchanged /\ inst' = inst) =>
          /\ acts[Len(acts)].inst = inst
          /\ acts[Len(acts)].isSubscribed
          /\ Steps(Len(acts))
          /\ \A a \in DOMAIN acts : a # Len(acts) => ~Steps(a)]_vars

\* the replayed activation has stored a dataset and the first one, detached
\* with its fetch in flight, has since run to its end
C19_Witness ==
    /\ Cardinality(Current) = 2
    /\ LifecycleState = "Ready"
    /\ \A a \in Current : acts[a].pc = "done"
    /\ \E a \in Current : ~acts[a].isSubscribed

\* C20: the state leaves Loading only in a step of an attached activation's
\* load (there is no timeout), and while an activation stays attached and
\* its awaited promises settle, Loading leads to Ready or Error.
C20_LoadingEndsOnlyBySettlement ==
    /\ [][(LifecycleState = "Loading" /\ LifecycleState' # "Loading" /\ inst' = inst) =>
            \E a \in Attached : Steps(a)]_vars
    /\ ((LifecycleState = "Loading" /\ Attached # {})
            ~> (LifecycleState \in {"Ready", "Error"} \/ Attached = {}))

\* the fetch has settled with a response that is ok and the body has not
\* settled yet: the instance is attached and still in Loading
C20_Witness ==
    /\ LifecycleState = "Loading"
    /\ \E a \in Attached : acts[a].pc = "json" /\ InFlight(a) = {}

(***************************************************************************)
(* Properties of enrichDataset                                             *)
(***************************************************************************)
\* the field is there and holds something other than null
Present(properties, k) ==
    /\ properties.t = "object"
    /\ k \in DOMAIN properties.bag
    /\ properties.bag[k].t # "null"

InFeature(i) == input.features.items[i]

OutBag(i) == output.value.features.items[i].properties.bag

\* C9: MODERN_NAME is the first of NAME_LONG, ADMIN, SOVEREIGNT that is
\* present and not null, and "Unknown Realm" when none is; a feature with no
\* name field gets "Unknown Realm" under both derived fields.
C9_ModernNamePriority ==
    output.kind = "return" =>
        \A i \in DOMAIN input.features.items :
            LET p == InFeature(i).properties
            IN  /\ Present(p, "NAME_LONG") => OutBag(i).MODERN_NAME = p.bag.NAME_LONG
                /\ (~Present(p, "NAME_LONG") /\ Present(p, "ADMIN"))
                      => OutBag(i).MODERN_NAME = p.bag.ADMIN
                /\ (~Present(p, "NAME_LONG") /\ ~Present(p, "ADMIN")
                        /\ Present(p, "SOVEREIGNT"))
                      => OutBag(i).MODERN_NAME = p.bag.SOVEREIGNT
                /\ (\A k \in NameKeys : ~Present(p, k))
                      => /\ OutBag(i).MODERN_NAME = Str("Unknown Realm")
                         /\ OutBag(i).DWAPARA_NAME = Str("Unknown Realm")

\* the long name is null, the administrative name absent, and the
\* sovereignty name is used
C9_Witness ==
    /\ output.kind = "return"
    /\ \E i \in DOMAIN input.features.items :
          LET p == InFeature(i).properties
          IN  /\ p.t = "object"
              /\ DOMAIN p.bag = {"NAME_LONG", "SOVEREIGNT"}
              /\ p.bag.NAME_LONG = Null
              /\ OutBag(i).MODERN_NAME = Str("Atlantis")

\* C10: DWAPARA_NAME is the table's value for MODERN_NAME when the table has
\* an entry with exactly that key, and MODERN_NAME itself when it has none.
C10_AlternateNameFromTable ==
    output.kind = "return" =>
        \A i \in DOMAIN input.features.items :
            /\ \A e \in DOMAIN dwaparaEntries :
                  OutBag(i).MODERN_NAME = Str(dwaparaEntries[e][1])
                      => OutBag(i).DWAPARA_NAME = Str(dwaparaEntries[e][2])
            /\ (\A e \in DOMAIN dwaparaEntries :
                    OutBag(i).MODERN_NAME # Str(dwaparaEntries[e][1]))
                  => OutBag(i).DWAPARA_NAME = OutBag(i).MODERN_NAME

\* one collection with a mapped name and an unmapped one
C10_Witness ==
    /\ output.kind = "return"
    /\ \E i, j \in DOMAIN input.features.items :
          /\ OutBag(i).MODERN_NAME = Str("India")
          /\ OutBag(i).DWAPARA_NAME = Str("Bharata Khanda")
          /\ OutBag(j).MODERN_NAME = Str("Atlantis")
          /\ OutBag(j).DWAPARA_NAME = Str("Atlantis")

\* C11: after enrichment DWAPARA_NAME is never the empty string, whatever
\* the property bag of the input feature holds.
C11_AlternateNameNeverEmpty ==
    output.kind = "return" =>
        \A i \in DOMAIN input.features.items : OutBag(i).DWAPARA_NAME # Str("")

\* the argument is a collection whose features are all objects
IsRegionCollection(collection) ==
    /\ collection.t = "object"
    /\ collection.features.t = "array"
    /\ \A i \in DOMAIN collection.features.items :
          collection.features.items[i].t = "object"

DerivedKeys == {"DWAPARA_NAME", "MODERN_NAME"}

\* the fields of input feature i other than the derived ones are found
\* unchanged in output feature i
CarriesOriginal(i) ==
    /\ output.value.features.items[i].geometry = InFeature(i).geometry
    /\ output.value.features.items[i].type = InFeature(i).type
    /\ DOMAIN OutBag(i) \ DerivedKeys = DOMAIN SpreadBag(InFeature(i).properties) \ DerivedKeys
    /\ \A k \in DOMAIN OutBag(i) \ DerivedKeys :
          OutBag(i)[k] = InFeature(i).properties.bag[k]

\* C12: on every collection of features enrichDataset returns (it does not
\* throw), the result has as many features as the argument, and result
\* feature i comes from argument feature i; a feature with missing name
\* fields or without a property bag does not abort the call.
C12_TotalAndLengthPreserving ==
    (output # Pending /\ IsRegionCollection(input)) =>
        /\ output.kind = "return"
        /\ Len(output.value.features.items) = Len(input.features.items)
        /\ \A i \in DOMAIN input.features.items : CarriesOriginal(i)

\* a feature without a property bag has been enriched
C12_Witness ==
    /\ output.kind = "return"
    /\ \E i \in DOMAIN input.features.items :
          /\ InFeature(i).properties.t = "null"
          /\ OutBag(i).MODERN_NAME = Str("Unknown Realm")

\* C13: the call leaves its argument as it was, the result shares no object
\* with the argument, and the result differs from the argument only by the
\* two derived fields.
C13_NoMutationNoSharing ==
    /\ [][output' # output => input' = input]_vars
    /\ [](output.kind = "return" =>
            /\ ArgumentObjects(input) \cap ResultObjects(input) = {}
            /\ \A i \in DOMAIN input.features.items : CarriesOriginal(i))

\* C14: applying enrichDataset to its own result gives that result again.
C14_Idempotent ==
    again # Pending => again = output

\* the second application has run on a feature whose two derived names differ
C14_Witness ==
    /\ again.kind = "return"
    /\ \E i \in DOMAIN again.value.features.items :
          /\ again.value.features.items[i].properties.bag.MODERN_NAME = Str("India")
          /\ again.value.features.items[i].properties.bag.DWAPARA_NAME = Str("Bharata Khanda")

(***************************************************************************)
(* Properties of the interactive map                                       *)
(***************************************************************************)
\* C15: on every layer, whatever came before, the style after a hover-leave
\* is the default style in every field and the style after a hover-enter is
\* the emphasized style in every field; every layer has the same pair.
C15_HoverStylesExact ==
    [][\A i \in DOMAIN layers :
          /\ HoverLeave(i) =>
                layers'[i].style = [color |-> "#38bdf8", weight |-> "1",
                                    fillColor |-> "#0ea5e9", fillOpacity |-> "0.22"]
          /\ HoverEnter(i) =>
                layers'[i].style = [color |-> "#38bdf8", weight |-> "2.5",
                                    fillColor |-> "#0ea5e9", fillOpacity |-> "0.38"]
          /\ (~HoverLeave(i) /\ ~HoverEnter(i)) => layers'[i] = layers[i]]_vars

\* two layers, one left in the emphasized style and one back in the default
C15_Witness ==
    /\ Len(layers) = 2
    /\ layers[1].style.weight = "2.5"
    /\ layers[2].style.weight = "1"

\* C16: the tooltip is DWAPARA_NAME alone when MODERN_NAME equals it, and
\* DWAPARA_NAME, a line break and "Modern: " with MODERN_NAME when they
\* differ.
C16_TooltipText ==
    \A i \in DOMAIN layers :
        LET bag == dataset.features.items[i].properties.bag
        IN  /\ bag.MODERN_NAME = bag.DWAPARA_NAME
                => layers[i].tooltip = bag.DWAPARA_NAME.v
            /\ bag.MODERN_NAME # bag.DWAPARA_NAME
                => layers[i].tooltip =
                       bag.DWAPARA_NAME.v \o "\n" \o "Modern: " \o bag.MODERN_NAME.v

\* one tooltip with the second line and one without
C16_Witness ==
    /\ Len(layers) = 2
    /\ layers[1].tooltip = "Bharata Khanda\nModern: India"
    /\ layers[2].tooltip = "Atlantis"

====
